---- MODULE Spec2Model ----
(***************************************************************************)
(* Model of sd-miner-v1.3.1.py: the per-device worker loop (main,          *)
(* check_and_reload_model, process_jobs, send_miner_request), the log      *)
(* metrics aggregator (parse_log_file) and the supervisor (__main__).      *)
(***************************************************************************)
EXTENDS Integers, Sequences, FiniteSets, TLC

VARIABLES
    \* ---- worker process (main) ----
    now,               \* time.time(), in seconds
    pc,                \* position of the worker in main's loop
    last_signal_time,  \* main's local last_signal_time
    last_heartbeat,    \* config.last_heartbeat
    loaded_models,     \* keys of config.loaded_models
    loaded_loras,      \* keys of config.loaded_loras
    local_model_ids,   \* what get_local_model_ids(config) returns
    exit_status,       \* worker exit status, NoExit while it runs
    sig,               \* the last check_and_reload_model call, as observed
    req,               \* the job request of the current iteration, as observed
    last_hw_at,        \* time of the last request that carried the hardware descriptor
    \* ---- log file and aggregator (parse_log_file) ----
    log_lines,         \* the lines of the log file
    metrics,           \* result of the last parse_log_file call
    \* ---- supervisor process (__main__) ----
    sup_pc,            \* position of the main thread in the script
    sup_status,        \* exit status the process ends with, NoExit while undecided
    num_cuda_devices,  \* config.num_cuda_devices
    device_count,      \* torch.cuda.device_count()
    spawn_i,           \* i of the spawn loop
    worker,            \* state of the worker process of each device index
    processes,         \* the list processes
    updater,           \* state of updater_thread
    display,           \* state of display_thread
    signalled          \* whether signal_handler has run

workerVars == <<now, pc, last_signal_time, last_heartbeat, loaded_models,
                loaded_loras, local_model_ids, exit_status, sig, req, last_hw_at>>
logVars == <<log_lines, metrics>>
supVars == <<sup_pc, sup_status, num_cuda_devices, device_count, spawn_i, worker,
             processes, updater, display, signalled>>
vars == <<workerVars, logVars, supVars>>

-----------------------------------------------------------------------------
(* Bounds and configuration *)

MaxTime == 160           \* the clock is not advanced past this
HeartbeatInterval == 60  \* send_miner_request: time.time() - config.last_heartbeat >= 60
ReloadInterval == 40     \* config.reload_interval
SleepDuration == 20      \* config.sleep_duration
Deltas == {0, 20, 60}    \* seconds that pass during one blocking call
ModelIds == {"m1", "m2"}
NoModel == "None"
NoExit == 0 - 1
Never == 0 - 1000        \* no such time yet
MaxLines == 4            \* the log file holds at most this many lines
MaxDevices == 2          \* at most this many devices, configured or detected
MaxBody == 5             \* a response body has at most this many tokens

-----------------------------------------------------------------------------
(* Log records *)

\* A log line, by what parse_log_file looks for in it:
\*   marker      RUN_MARKER in line
\*   device      device_info_pattern matches
\*   recv        job_received_pattern: "none" no match, "ok" the payload parses
\*               as JSON, "bad" json.loads raises JSONDecodeError
\*   processing  "Processing Request ID" in line
\*   completed   job_completed_pattern matches, total_time its second group
\*   warning     "WARNING" in line
Times == {2, 4}
PlainLine == [marker |-> FALSE, device |-> FALSE, recv |-> "none", processing |-> FALSE,
              completed |-> FALSE, total_time |-> 0, warning |-> FALSE]
MarkerLine == [PlainLine EXCEPT !.marker = TRUE]
DeviceLine == [PlainLine EXCEPT !.device = TRUE]
ProcessingLine == [PlainLine EXCEPT !.processing = TRUE]
CompletedLine(t) == [PlainLine EXCEPT !.completed = TRUE, !.total_time = t]
WarningLine == [PlainLine EXCEPT !.warning = TRUE]
ReceivedLine(j) == [PlainLine EXCEPT !.recv = j]

\* records of level INFO and ERROR that match none of the patterns:
\* "No job received.", "Error occurred:" with its traceback, "Failed to get a
\* valid response from /miner_signal ..."
InfoLine == PlainLine
ErrorLine == PlainLine

-----------------------------------------------------------------------------
(* check_and_reload_model *)

\* what post_request(... "/miner_signal" ...) and response.json() can give
SignalResponses ==
    {[status |-> s, model_id |-> NoModel] : s \in {"raise", "none", "non200", "badbody"}}
        \cup {[status |-> "200", model_id |-> m] : m \in ModelIds \cup {NoModel}}

\* what reload_model(config, model_id_from_signal) can do
ReloadResults == {"model", "lora", "raise"}

IntervalElapsedWhenLoaded(current_time, lst) ==
    current_time - lst >= ReloadInterval /\ (loaded_models # {} \/ loaded_loras # {})

\* current_time - last_signal_time >= config.reload_interval
IntervalElapsed(current_time, lst) == current_time - lst >= ReloadInterval

\* if response and response.status_code == 200
ValidResponse(r) == r.status = "200"

ShouldReloadIgnoringLoras(m) == m \in local_model_ids /\ m \notin loaded_models

\* model in local storage and not already loaded
ShouldReload(m) ==
    /\ m \in local_model_ids
    /\ m \notin loaded_models
    /\ m \notin loaded_loras

ReturnedSignalTimeUnchanged(current_time, lst) == lst

\* return last_signal_time if current_time - last_signal_time < config.reload_interval else current_time
ReturnedSignalTime(current_time, lst) ==
    IF current_time - lst < ReloadInterval THEN lst ELSE current_time

\* sig: whether /miner_signal was requested, at what current_time, what came
\* back, whether reload_model was invoked, whether the call raised, whether
\* the call of the iteration before requested the signal without a reload,
\* whether the call of the iteration before raised, the
\* records the call and main's except clause wrote to the log, and, over the
\* whole run, the time of the latest request (last_at), whether there was a
\* request before that one (repeated), and whether any call has raised
NoSig == [sent |-> FALSE, at |-> Never, status |-> "unsent", model_id |-> NoModel,
          reload_called |-> FALSE, raised |-> FALSE, prev_noop |-> FALSE,
          prev_raised |-> FALSE,
          logged |-> <<>>, last_at |-> Never, repeated |-> FALSE,
          ever_raised |-> FALSE]

\* the signal was requested and the call returned without invoking reload_model
NoOpSignal(s) == s.sent /\ ~s.reload_called /\ ~s.raised

\* what a call that does not request the signal leaves of the run's history
Carried(s) == [NoSig EXCEPT !.prev_noop = NoOpSignal(s),
                            !.prev_raised = s.raised, !.last_at = s.last_at,
                            !.repeated = s.repeated, !.ever_raised = s.ever_raised]

\* if model_id is None: logging.warning("No loaded models found. ...")
SignalLogged ==
    IF loaded_loras = {} /\ loaded_models = {} THEN <<WarningLine>> ELSE <<>>


\* printed by send_miner_request: whether, and the warning_message
NoWarning == [printed |-> FALSE, message |-> <<>>]

\* req: whether /miner_request was sent, with the hardware descriptor or not,
\* for what model, what came of it, the response (truthy or not, its text),
\* what was printed as warning, whether the acceptance record was written,
\* whether submit_job_result was called, and the records process_jobs and
\* main's except clause wrote to the log
NoReq == [sent |-> FALSE, hw |-> FALSE, model_id |-> NoModel, outcome |-> "unsent",
          ok |-> FALSE, text |-> <<>>, warning |-> NoWarning, accepted |-> FALSE,
          submitted |-> FALSE, logged |-> <<>>]

\* the call returns: main assigns last_signal_time and goes on to process_jobs
CheckReturns(current_time, lst, s) ==
    /\ last_signal_time' = ReturnedSignalTime(current_time, lst)
    /\ sig' = s
    /\ pc' = "process"

CheckRaisesAdvances(s) ==
    /\ last_signal_time' = now
    /\ sig' = [s EXCEPT !.raised = TRUE, !.ever_raised = TRUE,
                        !.logged = @ \o <<ErrorLine>>]
    /\ pc' = "sleep"

\* the call raises: main's except clause logs the error and sets
\* executed = False
CheckRaises(s) ==
    /\ last_signal_time' = last_signal_time
    /\ sig' = [s EXCEPT !.raised = TRUE, !.ever_raised = TRUE,
                        !.logged = @ \o <<ErrorLine>>]
    /\ pc' = "sleep"

CheckAndReload ==
    /\ pc = "check"
    /\ req' = NoReq
    /\ UNCHANGED <<last_heartbeat, local_model_ids, exit_status, last_hw_at, logVars, supVars>>
    /\ LET current_time == now IN
       IF ~IntervalElapsed(current_time, last_signal_time)
       THEN /\ CheckReturns(current_time, last_signal_time, Carried(sig))
            /\ UNCHANGED <<now, loaded_models, loaded_loras>>
       ELSE \E r \in SignalResponses, d \in Deltas :
            /\ now + d <= MaxTime
            /\ now' = now + d
            /\ LET s == [Carried(sig) EXCEPT
                             !.sent = TRUE, !.at = current_time,
                             !.status = r.status, !.model_id = r.model_id,
                             !.logged = SignalLogged,
                             !.last_at = current_time,
                             !.repeated = (sig.last_at # Never)] IN
               CASE r.status \in {"raise", "badbody"} ->
                        /\ CheckRaises(s)
                        /\ UNCHANGED <<loaded_models, loaded_loras>>
                 [] r.status \in {"none", "non200"} ->
                        \* else: logging.error("Failed to get a valid response ...")
                        /\ CheckReturns(current_time, last_signal_time,
                                        [s EXCEPT !.logged = @ \o <<ErrorLine>>])
                        /\ UNCHANGED <<loaded_models, loaded_loras>>
                 [] ValidResponse(r) /\ ~ShouldReload(r.model_id) ->
                        /\ CheckReturns(current_time, last_signal_time, s)
                        /\ UNCHANGED <<loaded_models, loaded_loras>>
                 [] ValidResponse(r) /\ ShouldReload(r.model_id) ->
                        \E how \in ReloadResults :
                          CASE how = "model" ->
                                   /\ loaded_models' = {r.model_id}
                                   /\ loaded_loras' = {}
                                   /\ CheckReturns(current_time, current_time,
                                                   [s EXCEPT !.reload_called = TRUE])
                            [] how = "lora" ->
                                   /\ loaded_loras' = {r.model_id}
                                   /\ UNCHANGED loaded_models
                                   /\ CheckReturns(current_time, current_time,
                                                   [s EXCEPT !.reload_called = TRUE])
                            [] how = "raise" ->
                                   /\ CheckRaises([s EXCEPT !.reload_called = TRUE])
                                   /\ UNCHANGED <<loaded_models, loaded_loras>>

-----------------------------------------------------------------------------
(* send_miner_request and process_jobs *)

\* what post_request(... "/miner_request" ...), log_response and
\* submit_job_result can give:
\*   raise      post_request raises
\*   none       post_request returns no response, response_data is None
\*   nojob      a response without a job, response_data is falsy
\*   malformed  response_data is a non-empty dict without 'job_id' (KeyError in process_jobs)
\*   nocreds    a job without 'temp_credentials' (KeyError after the acceptance record)
\*   job        a job, submit_job_result returns
\*   jobfail    a job, submit_job_result raises
JobOutcomes == {"raise", "none", "nojob", "malformed", "nocreds", "job", "jobfail"}

\* response.text as a sequence of tokens: "W" the text Warning:, "Q" a
\* quotation mark, "T" the text disk almost full, "J" a job payload
Tokens == {"W", "Q", "T", "J"}
SeqsUpTo(S, n) == UNION {[1..k -> S] : k \in 0..n}
Bodies == SeqsUpTo(Tokens, MaxBody)
QuotedWarning == <<"W", "Q", "T", "Q">>
JobPayload == <<"J">>

\* the bodies the server of the worker loop answers with
WorkerTexts == {<<>>, JobPayload, QuotedWarning, JobPayload \o QuotedWarning}

\* warning_indicator in response.text
WarningIndicatorIn(text) == \E i \in 1..Len(text) : text[i] = "W"

\* response.text.split(warning_indicator)[1]: what stands between the first
\* indicator and the next one, or the end of the text
SplitSecond(text) ==
    LET first == CHOOSE i \in 1..Len(text) :
                     text[i] = "W" /\ \A j \in 1..(i - 1) : text[j] # "W"
        rest == SubSeq(text, first + 1, Len(text))
        stop == IF WarningIndicatorIn(rest)
                THEN CHOOSE i \in 1..Len(rest) :
                         rest[i] = "W" /\ \A j \in 1..(i - 1) : rest[j] # "W"
                ELSE Len(rest) + 1
    IN SubSeq(rest, 1, stop - 1)

\* .strip('"'): the quotation marks at the two ends are removed
RECURSIVE LStrip(_)
LStrip(t) == IF t # <<>> /\ Head(t) = "Q" THEN LStrip(Tail(t)) ELSE t
RECURSIVE RStrip(_)
RStrip(t) ==
    IF t # <<>> /\ t[Len(t)] = "Q" THEN RStrip(SubSeq(t, 1, Len(t) - 1)) ELSE t
Strip(t) == RStrip(LStrip(t))

\* if response and warning_indicator in response.text: print(f"WARNING: ...")
PrintedWarning(ok, text) ==
    IF ok /\ WarningIndicatorIn(text)
    THEN [printed |-> TRUE, message |-> Strip(SplitSecond(text))]
    ELSE NoWarning

\* log_response(response, config.miner_id) gives the job the body carries
CarriesJob(text) == \E i \in 1..Len(text) : text[i] = "J"

\* the responses to /miner_request with a body of T: the outcome, whether the
\* response object is truthy (requests: status below 400), and its text
Responses(T) ==
    {[outcome |-> o, ok |-> FALSE, text |-> <<>>] : o \in {"raise", "none"}}
        \cup {[outcome |-> "nojob", ok |-> k, text |-> t] :
                 k \in BOOLEAN, t \in {x \in T : ~CarriesJob(x)}}
        \cup {[outcome |-> "malformed", ok |-> TRUE, text |-> t] :
                 t \in {x \in T : ~CarriesJob(x)}}
        \cup {[outcome |-> o, ok |-> TRUE, text |-> t] :
                 o \in {"nocreds", "job", "jobfail"}, t \in {x \in T : CarriesJob(x)}}

\* if not job: logging.info("No job received."); return False
NoJob(o) == o \in {"none", "nojob"}

AcceptsUnguarded(o) == o # "raise"

\* logging.info(f"Processing Request ID: {job['job_id']}. ...") is reached
Accepts(o) == o \in {"nocreds", "job", "jobfail"}

\* submit_job_result(...) is called
Submits(o) == o \in {"job", "jobfail"}

\* the records process_jobs and main's except clause write
JobLogged(o) ==
    CASE NoJob(o) -> <<InfoLine>>
      [] o \in {"raise", "malformed"} -> <<ErrorLine>>
      [] o \in {"nocreds", "jobfail"} -> <<ProcessingLine, ErrorLine>>
      [] o = "job" -> <<ProcessingLine>>

AfterProcessUncaught(o) ==
    IF o = "job" THEN "check"
    ELSE IF o \in {"raise", "malformed", "nocreds", "jobfail"} THEN "exited"
    ELSE "sleep"

\* executed = process_jobs(config), except Exception: executed = False;
\* if not executed, main sleeps before the next iteration
AfterProcess(o) == IF o = "job" THEN "check" ELSE "sleep"

\* if time.time() - config.last_heartbeat >= 60
HeartbeatDue(t, lh) == t - lh >= HeartbeatInterval

HeartbeatAfterKeep(t, lh, due) == lh

\* config.last_heartbeat = time.time(), inside the if
HeartbeatAfter(t, lh, due) == IF due THEN t ELSE lh

\* current_lora_id if current_lora_id is not None else current_model_id
ModelIdsToSend ==
    IF loaded_loras # {} THEN loaded_loras
    ELSE IF loaded_models # {} THEN loaded_models
    ELSE {NoModel}

NoLocalModelsLoaded(ids) == loaded_models = {} /\ loaded_loras = {}

\* model_ids = get_local_model_ids(config); if not model_ids
NoLocalModels(ids) == ids = {}

ProcessJobsOn(T) ==
    /\ pc = "process"
    /\ UNCHANGED <<last_signal_time, loaded_models, loaded_loras, local_model_ids,
                   sig, logVars, supVars>>
    /\ IF NoLocalModels(local_model_ids)
       THEN \* sys.exit(0): SystemExit is not an Exception, main does not catch it
            /\ pc' = "exited"
            /\ exit_status' = 0
            /\ UNCHANGED <<now, last_heartbeat, req, last_hw_at>>
       ELSE \E m \in ModelIdsToSend, r \in Responses(T), d \in Deltas :
            LET due == HeartbeatDue(now, last_heartbeat)
                o == r.outcome IN
            /\ now + d <= MaxTime
            /\ now' = now + d
            /\ last_heartbeat' = HeartbeatAfter(now, last_heartbeat, due)
            /\ last_hw_at' = IF due THEN now ELSE last_hw_at
            /\ req' = [sent |-> TRUE, hw |-> due, model_id |-> m, outcome |-> o,
                       ok |-> r.ok, text |-> r.text,
                       warning |-> PrintedWarning(r.ok, r.text),
                       accepted |-> Accepts(o), submitted |-> Submits(o),
                       logged |-> JobLogged(o)]
            /\ pc' = AfterProcess(o)
            /\ UNCHANGED exit_status

\* process_jobs in the worker loop
ProcessJobs == ProcessJobsOn(WorkerTexts)

\* if not executed: time.sleep(config.sleep_duration)
Sleep ==
    /\ pc = "sleep"
    /\ now + SleepDuration <= MaxTime
    /\ now' = now + SleepDuration
    /\ pc' = "check"
    /\ UNCHANGED <<last_signal_time, last_heartbeat, loaded_models, loaded_loras,
                   local_model_ids, exit_status, sig, req, last_hw_at, logVars,
                   supVars>>

AtMostOne(S) == {T \in SUBSET S : Cardinality(T) <= 1}

\* main up to the loop: load_default_model(config); last_signal_time = time.time()
WorkerInit ==
    /\ now = 0
    /\ pc = "check"
    /\ last_signal_time = now
    /\ last_heartbeat \in {0 - HeartbeatInterval, 0}
    /\ local_model_ids \in SUBSET ModelIds
    /\ loaded_models \in AtMostOne(local_model_ids)
    /\ loaded_loras \in AtMostOne(local_model_ids \ loaded_models)
    /\ exit_status = NoExit
    /\ sig = NoSig
    /\ req = NoReq
    /\ last_hw_at = Never

LogIdle ==
    /\ log_lines = <<>>
    /\ metrics = [outcome |-> "unset"]

\* no supervisor in the picture: one worker process on its own
SupIdle ==
    /\ sup_pc = "exited"
    /\ sup_status = 0
    /\ num_cuda_devices = 1
    /\ device_count = 1
    /\ spawn_i = 0
    /\ worker = <<>>
    /\ processes = <<>>
    /\ updater = "none"
    /\ display = "none"
    /\ signalled = FALSE

Init == WorkerInit /\ LogIdle /\ SupIdle

Next == CheckAndReload \/ ProcessJobs \/ Sleep

Spec == Init /\ [][Next]_vars

\* the first job requests of a worker with its default model loaded, over
\* every response body
ClientInit ==
    /\ WorkerInit
    /\ local_model_ids = ModelIds
    /\ loaded_models # {}
    /\ loaded_loras = {}
    /\ LogIdle
    /\ SupIdle

\* the reload check at the start of the loop
FirstCheck == CheckAndReload /\ now = 0

JobRequest == ProcessJobsOn(Bodies)

ClientNext == FirstCheck \/ JobRequest

SpecClient == ClientInit /\ [][ClientNext]_vars

-----------------------------------------------------------------------------
(* parse_log_file *)

\* the lines a log is made of here: the records the program writes, and server
\* response lines whose payload also holds the text of another record
LogLines ==
    {MarkerLine, DeviceLine, ProcessingLine, WarningLine, ReceivedLine("ok")}
        \cup {CompletedLine(t) : t \in Times}
        \cup {[ProcessingLine EXCEPT !.recv = "bad"],
              [CompletedLine(2) EXCEPT !.recv = "bad"],
              [WarningLine EXCEPT !.recv = "bad"]}

\* what nvmlDeviceGetUtilizationRates gives for the devices
GpuUsages == {<<>>, <<50>>}

RECURSIVE SumSeq(_)
SumSeq(q) == IF q = <<>> THEN 0 ELSE Head(q) + SumSeq(Tail(q))

RECURSIVE FirstMarkerFrom(_, _)
FirstMarkerFrom(lines, i) ==
    IF i > Len(lines) THEN 0
    ELSE IF lines[i].marker THEN i ELSE FirstMarkerFrom(lines, i + 1)

StartIndexFirst(lines) == FirstMarkerFrom(lines, 1)

\* next(i for i in reversed(range(len(log_lines))) if RUN_MARKER in log_lines[i]):
\* the position (from 1) of the last marker line, 0 when the generator is exhausted
RECURSIVE LastMarkerFrom(_, _)
LastMarkerFrom(lines, i) ==
    IF i = 0 THEN 0
    ELSE IF lines[i].marker THEN i ELSE LastMarkerFrom(lines, i - 1)

StartIndex(lines) == LastMarkerFrom(lines, Len(lines))

MarkerMissingIgnored(k) == FALSE

\* next() without a default raises StopIteration when no line holds the marker
MarkerMissing(k) == k = 0

ZeroMetrics == [num_jobs |-> 0, success_jobs |-> 0, failed_jobs |-> 0,
                latency |-> <<>>, jobs_being_processed |-> 0]

\* except json.JSONDecodeError: continue
SkipsLine(line) == line.recv = "bad"

\* one pass of the for loop over a line
ScanLine(m, line) ==
    IF SkipsLine(line) THEN m
    ELSE LET m1 == IF line.processing
                   THEN [m EXCEPT !.jobs_being_processed = @ + 1, !.num_jobs = @ + 1]
                   ELSE m
             m2 == IF line.completed
                   THEN [m1 EXCEPT !.success_jobs = @ + 1, !.jobs_being_processed = @ - 1,
                                   !.latency = Append(@, line.total_time)]
                   ELSE m1
         IN IF line.warning THEN [m2 EXCEPT !.failed_jobs = @ + 1] ELSE m2

\* for line in log_lines[start_index:]
RECURSIVE ScanFrom(_, _, _)
ScanFrom(lines, i, m) ==
    IF i > Len(lines) THEN m ELSE ScanFrom(lines, i + 1, ScanLine(m, lines[i]))

\* sum(metrics['latency']) / len(metrics['latency']) if metrics['latency'] else 0,
\* as the fraction num/den
AvgLatency(samples) ==
    IF samples # <<>> THEN [num |-> SumSeq(samples), den |-> Len(samples)]
    ELSE [num |-> 0, den |-> 1]

\* the function's outcome: StopIteration raised, or the returned dict
parse_log_file(lines, usage) ==
    LET k == StartIndex(lines) IN
    IF MarkerMissing(k)
    THEN [outcome |-> "StopIteration", n |-> Len(lines)]
    ELSE LET m == ScanFrom(lines, k + 1, ZeroMetrics) IN
         [outcome |-> "returned", n |-> Len(lines),
          gpu_usage |-> usage,
          num_jobs |-> m.num_jobs,
          success_jobs |-> m.success_jobs,
          failed_jobs |-> m.failed_jobs,
          latency |-> AvgLatency(m.latency),
          jobs_being_processed |-> m.jobs_being_processed]

\* display_data_thread: metrics = parse_log_file(log_file_path)
ParseLogFile ==
    /\ \E usage \in GpuUsages : metrics' = parse_log_file(log_lines, usage)
    /\ UNCHANGED <<log_lines, workerVars, supVars>>

\* a logging call of the supervisor or of a worker appends a line (filemode 'a')
AppendLogLine ==
    /\ Len(log_lines) < MaxLines
    /\ \E l \in LogLines : log_lines' = Append(log_lines, l)
    /\ UNCHANGED <<metrics, workerVars, supVars>>

\* no worker process in the picture
WorkerIdle ==
    /\ now = 0
    /\ pc = "exited"
    /\ last_signal_time = 0
    /\ last_heartbeat = 0
    /\ local_model_ids = {}
    /\ loaded_models = {}
    /\ loaded_loras = {}
    /\ exit_status = 0
    /\ sig = NoSig
    /\ req = NoReq
    /\ last_hw_at = Never

LogInit == LogIdle /\ WorkerIdle /\ SupIdle

LogNext == AppendLogLine \/ ParseLogFile

SpecLog == LogInit /\ [][LogNext]_vars

-----------------------------------------------------------------------------
(* __main__: the supervisor *)

Devices == 0..(MaxDevices - 1)

\* the main thread leaves the script with this status; the process ends once
\* its non-daemon threads and its child processes have ended
LeaveScript(status) ==
    /\ sup_pc' = "shutdown"
    /\ sup_status' = status

DeviceCountExceededByTwo(configured, detected) == configured > detected + 1

\* if config.num_cuda_devices > torch.cuda.device_count()
DeviceCountExceeded(configured, detected) == configured > detected

\* config = load_config(); config = initialize_logging_and_args(...): returns, or
\* raises (a miner id is missing in .env)
LoadConfig ==
    /\ sup_pc = "load_config"
    /\ \/ sup_pc' = "device_check" /\ UNCHANGED sup_status
       \/ LeaveScript(1)
    /\ UNCHANGED <<num_cuda_devices, device_count, spawn_i, worker, processes,
                   updater, display, signalled, workerVars, logVars>>

\* the device count check; sys.exit(1) when it fails
DeviceCheck ==
    /\ sup_pc = "device_check"
    /\ IF DeviceCountExceeded(num_cuda_devices, device_count)
       THEN LeaveScript(1)
       ELSE sup_pc' = "preflight" /\ UNCHANGED sup_status
    /\ UNCHANGED <<num_cuda_devices, device_count, spawn_i, worker, processes,
                   updater, display, signalled, workerVars, logVars>>

\* check_cuda(), fetch_and_download_config_files, compare_model_checksums:
\* return, or end the script with an error
Preflight ==
    /\ sup_pc = "preflight"
    /\ \/ sup_pc' = "start_updater" /\ UNCHANGED sup_status
       \/ LeaveScript(1)
    /\ UNCHANGED <<num_cuda_devices, device_count, spawn_i, worker, processes,
                   updater, display, signalled, workerVars, logVars>>

\* updater_thread.start()
StartUpdater ==
    /\ sup_pc = "start_updater"
    /\ updater' = "running"
    /\ sup_pc' = "log_marker"
    /\ UNCHANGED <<sup_status, num_cuda_devices, device_count, spawn_i, worker,
                   processes, display, signalled, workerVars, logVars>>

\* logging.info(RUN_MARKER)
LogRunMarker ==
    /\ sup_pc = "log_marker"
    /\ log_lines' = IF Len(log_lines) < MaxLines THEN Append(log_lines, MarkerLine)
                    ELSE log_lines
    /\ sup_pc' = "start_display"
    /\ UNCHANGED <<sup_status, num_cuda_devices, device_count, spawn_i, worker,
                   processes, updater, display, signalled, workerVars, metrics>>

\* display_thread.start()
StartDisplay ==
    /\ sup_pc = "start_display"
    /\ display' = "started"
    /\ sup_pc' = "spawn"
    /\ spawn_i' = 0
    /\ UNCHANGED <<sup_status, num_cuda_devices, device_count, worker, processes,
                   updater, signalled, workerVars, logVars>>

\* for i in range(config.num_cuda_devices): p = Process(...); p.start()
SpawnStart ==
    /\ sup_pc = "spawn"
    /\ IF spawn_i < num_cuda_devices
       THEN /\ worker' = [worker EXCEPT ![spawn_i] = "running"]
            /\ sup_pc' = "record"
       ELSE /\ sup_pc' = "join"
            /\ UNCHANGED worker
    /\ UNCHANGED <<sup_status, num_cuda_devices, device_count, spawn_i, processes,
                   updater, display, signalled, workerVars, logVars>>

\* processes.append(p)
SpawnRecord ==
    /\ sup_pc = "record"
    /\ processes' = Append(processes, spawn_i)
    /\ spawn_i' = spawn_i + 1
    /\ sup_pc' = "spawn"
    /\ UNCHANGED <<sup_status, num_cuda_devices, device_count, worker, updater,
                   display, signalled, workerVars, logVars>>

Running(i) == worker[i] = "running"

\* for p in processes: p.join() returns once every recorded child has ended;
\* the script then ends
JoinAll ==
    /\ sup_pc = "join"
    /\ \A k \in 1..Len(processes) : ~Running(processes[k])
    /\ LeaveScript(0)
    /\ UNCHANGED <<num_cuda_devices, device_count, spawn_i, worker, processes,
                   updater, display, signalled, workerVars, logVars>>

\* a worker process ends by itself (sys.exit(0) in process_jobs, or an error
\* before its loop)
WorkerEnds ==
    /\ \E i \in Devices :
         /\ Running(i)
         /\ worker' = [worker EXCEPT ![i] = "ended"]
    /\ UNCHANGED <<sup_pc, sup_status, num_cuda_devices, device_count, spawn_i,
                   processes, updater, display, signalled, workerVars, logVars>>

\* display_data_thread: curses.wrapper calls initscr() before draw_table
DisplayInit ==
    /\ display = "started"
    /\ display' = "curses"
    /\ UNCHANGED <<sup_pc, sup_status, num_cuda_devices, device_count, spawn_i,
                   worker, processes, updater, signalled, workerVars, logVars>>

\* draw_table ends: 'q' was typed, or parse_log_file raised
DisplayEnds ==
    /\ display = "curses"
    /\ display' = "ended"
    /\ UNCHANGED <<sup_pc, sup_status, num_cuda_devices, device_count, spawn_i,
                   worker, processes, updater, signalled, workerVars, logVars>>

\* model_updater.start_scheduled_updates ends
UpdaterEnds ==
    /\ updater = "running"
    /\ updater' = "ended"
    /\ UNCHANGED <<sup_pc, sup_status, num_cuda_devices, device_count, spawn_i,
                   worker, processes, display, signalled, workerVars, logVars>>

\* curses.endwin() raises curses.error unless initscr() has been called
EndwinRaises(d) == d \notin {"curses", "ended"}

\* signal_handler, run in the main thread on SIGINT or SIGTERM while the
\* script runs: terminate the recorded children, curses.endwin(), sys.exit(0)
SignalHandler ==
    /\ sup_pc \notin {"shutdown", "exited"}
    /\ signalled' = TRUE
    /\ worker' = [i \in Devices |->
                    IF Running(i) /\ \E k \in 1..Len(processes) : processes[k] = i
                    THEN "terminated" ELSE worker[i]]
    /\ IF EndwinRaises(display) THEN LeaveScript(1) ELSE LeaveScript(0)
    /\ UNCHANGED <<num_cuda_devices, device_count, spawn_i, processes, updater,
                   display, workerVars, logVars>>

ThreadAlive(t) == t \in {"running", "started", "curses"}

\* interpreter shutdown: the non-daemon threads are joined, then the
\* multiprocessing exit handler joins the children, then the process ends
FinishShutdown ==
    /\ sup_pc = "shutdown"
    /\ ~ThreadAlive(updater) /\ ~ThreadAlive(display)
    /\ \A i \in Devices : ~Running(i)
    /\ sup_pc' = "exited"
    /\ UNCHANGED <<sup_status, num_cuda_devices, device_count, spawn_i, worker,
                   processes, updater, display, signalled, workerVars, logVars>>

\* the script after the signal handlers are installed
SupInit ==
    /\ sup_pc = "load_config"
    /\ sup_status = NoExit
    /\ num_cuda_devices \in 1..MaxDevices
    /\ device_count \in 0..MaxDevices
    /\ spawn_i = 0
    /\ worker = [i \in Devices |-> "none"]
    /\ processes = <<>>
    /\ updater = "none"
    /\ display = "none"
    /\ signalled = FALSE

SupSpecInit == SupInit /\ WorkerIdle /\ LogIdle

SupNext ==
    \/ LoadConfig \/ DeviceCheck \/ Preflight \/ StartUpdater \/ LogRunMarker
    \/ StartDisplay \/ SpawnStart \/ SpawnRecord \/ JoinAll \/ WorkerEnds
    \/ DisplayInit \/ DisplayEnds \/ UpdaterEnds \/ SignalHandler \/ FinishShutdown

SpecSup == SupSpecInit /\ [][SupNext]_vars

\* what runs on without outside help: the main thread goes through the script,
\* the display thread reaches initscr(), and the interpreter ends the process
\* once nothing keeps it alive. That a thread or a worker ends (a key typed,
\* an error) and that a signal arrives is up to the environment.
MainThreadStep ==
    \/ LoadConfig \/ DeviceCheck \/ Preflight \/ StartUpdater \/ LogRunMarker
    \/ StartDisplay \/ SpawnStart \/ SpawnRecord \/ JoinAll

SpecSupFair ==
    /\ SpecSup
    /\ WF_vars(MainThreadStep)
    /\ WF_vars(DisplayInit)
    /\ WF_vars(FinishShutdown)

-----------------------------------------------------------------------------
(* Claims about the worker loop *)

\* a step of main that is one whole check_and_reload_model call which returned
CheckReturned == pc = "check" /\ pc' = "process"
\* a step of main that is one whole process_jobs call
ProcessStep == pc = "process" /\ pc' # "process"
NothingLoaded == loaded_models = {} /\ loaded_loras = {}

\* C1 (as stated): check_and_reload_model returns a last_signal_time different
\* from the one passed in only when the signal came back 200 and reload_model
\* was invoked in that call.
C1_ResetOnlyOnReload ==
    [][CheckReturned /\ last_signal_time' # last_signal_time
         => sig'.status = "200" /\ sig'.reload_called]_vars

\* C1 (amended): a returning check_and_reload_model call changes the timer
\* exactly when the reload interval had elapsed (the signal was requested), and
\* then returns that call's current_time whatever the outcome of the signal;
\* when the interval had not elapsed it returns the value passed in.
C1_ResetIffElapsed ==
    [][CheckReturned =>
         /\ sig'.sent <=> now - last_signal_time >= ReloadInterval
         /\ sig'.sent => last_signal_time' = now /\ last_signal_time' # last_signal_time
         /\ ~sig'.sent => last_signal_time' = last_signal_time]_vars

\* a failed signal call (no valid response) has reset the timer
C1_Witness ==
    /\ pc = "process"
    /\ sig.sent /\ sig.status \in {"none", "non200"}
    /\ last_signal_time = sig.at /\ last_signal_time > 0

\* C2 (as stated): after an iteration whose signal call failed or was a no-op,
\* the very next iteration requests /miner_signal again.
C2_RetryNextTick ==
    [][pc = "check" /\ pc' # "check" /\ NoOpSignal(sig) => sig'.sent]_vars

\* C2 (amended): after an iteration whose signal call failed or was a no-op
\* (without raising), the next iteration requests /miner_signal again exactly
\* when a full reload interval has passed since that call; otherwise it
\* requests nothing.
C2_RetryAfterInterval ==
    [][pc = "check" /\ pc' # "check" /\ NoOpSignal(sig)
         => (sig'.sent <=> now - sig.at >= ReloadInterval)]_vars

\* the iteration after a failed or no-op signal call requested no signal
C2_Witness == pc = "process" /\ sig.prev_noop /\ ~sig.sent

\* C3: a job request carries the hardware descriptor and version iff
\* now - last_heartbeat >= 60 at that call, and no request within 60 seconds of
\* a request that carried them carries them again.
C3_HeartbeatThrottle ==
    [][ProcessStep /\ req'.sent =>
         /\ req'.hw <=> now - last_heartbeat >= HeartbeatInterval
         /\ last_hw_at # Never /\ now - last_hw_at < HeartbeatInterval => ~req'.hw]_vars

\* a request inside the window after a hardware-carrying request went without
C3_Witness ==
    /\ req.sent /\ ~req.hw
    /\ last_hw_at # Never /\ last_hw_at = last_heartbeat

\* C4 (as stated): last_heartbeat is left unchanged when the request that was
\* to carry the hardware descriptor was not sent successfully (post_request
\* raises or returns no response).
C4_HeartbeatOnlyOnSend ==
    [][ProcessStep /\ req'.sent /\ req'.outcome \in {"raise", "none"}
         => last_heartbeat' = last_heartbeat]_vars

\* C5 (as stated): process_jobs with neither an adapter nor a base model
\* loaded terminates the worker and sends no job request.
C5_ExitWhenNothingLoaded ==
    [][ProcessStep /\ NothingLoaded => pc' = "exited" /\ ~req'.sent]_vars

\* C5 (amended): process_jobs terminates the worker (exit status 0, not caught
\* by main's except Exception) and sends no job request exactly when no model
\* id is locally available; with a model id locally available it does not
\* terminate the worker, and with neither an adapter nor a base model loaded
\* the job request it sends carries model_id None.
C5_ExitWhenNoLocalModels ==
    [][ProcessStep =>
         IF local_model_ids = {}
         THEN pc' = "exited" /\ exit_status' = 0 /\ ~req'.sent
         ELSE /\ pc' # "exited" /\ exit_status' = NoExit
              /\ NothingLoaded /\ req'.sent => req'.model_id = NoModel]_vars

\* the worker has terminated without a job request in its last iteration
C5_Witness == pc = "exited" /\ exit_status = 0 /\ ~req.sent /\ NothingLoaded

-----------------------------------------------------------------------------
(* Claims about parse_log_file *)

\* the lines the last parse_log_file call read (the log only grows)
Parsed == SubSeq(log_lines, 1, metrics.n)
Called == metrics.outcome # "unset"
HasMarker(lines) == \E i \in 1..Len(lines) : lines[i].marker
LastMarker(lines) ==
    CHOOSE i \in 1..Len(lines) :
        lines[i].marker /\ \A j \in (i + 1)..Len(lines) : ~lines[j].marker
\* the lines after the last marker
Segment(lines) == SubSeq(lines, LastMarker(lines) + 1, Len(lines))
Count(lines, P(_)) == Cardinality({i \in 1..Len(lines) : P(lines[i])})
IsAcceptance(l) == l.processing
IsCompletion(l) == l.completed
RECURSIVE TotalTime(_)
TotalTime(lines) ==
    IF lines = <<>> THEN 0
    ELSE (IF Head(lines).completed THEN Head(lines).total_time ELSE 0)
             + TotalTime(Tail(lines))
Counters(m) == [num_jobs |-> m.num_jobs, success_jobs |-> m.success_jobs,
                failed_jobs |-> m.failed_jobs, latency |-> m.latency,
                jobs_being_processed |-> m.jobs_being_processed]

\* C6: for a log with a run-start marker the counters are those computed from
\* the last marker and the lines after it alone: dropping the lines before the
\* last marker, or putting any further line in front of the log, changes nothing.
C6_ScopedToLastMarker ==
    Called /\ HasMarker(Parsed) =>
        /\ metrics.outcome = "returned"
        /\ LET alone == parse_log_file(<<MarkerLine>> \o Segment(Parsed), <<>>) IN
           alone.outcome = "returned" /\ Counters(metrics) = Counters(alone)
        /\ \A l \in LogLines :
             LET more == parse_log_file(<<l>> \o Parsed, <<>>) IN
             more.outcome = "returned" /\ Counters(metrics) = Counters(more)

\* a log with two markers and job lines before the second one was parsed
C6_Witness ==
    /\ Called /\ HasMarker(Parsed)
    /\ \E i, j \in 1..Len(Parsed) :
         /\ i < j /\ j < LastMarker(Parsed)
         /\ Parsed[i].marker /\ Parsed[j].processing /\ ~Parsed[j].marker
    /\ metrics.num_jobs = 0

\* C7: for a log without a run-start marker (the empty log too)
\* parse_log_file ends in StopIteration and returns no metrics record.
C7_NoMarkerIsError ==
    Called /\ ~HasMarker(Parsed) =>
        /\ metrics.outcome = "StopIteration"
        /\ DOMAIN metrics = {"outcome", "n"}

\* a log with lines but no marker was parsed
C7_Witness ==
    /\ Called /\ ~HasMarker(Parsed) /\ Len(Parsed) >= 2
    /\ \E i \in 1..Len(Parsed) : Parsed[i].processing
    /\ metrics.outcome = "StopIteration"

\* C8 (as stated): num_jobs is the number of job-acceptance lines after the
\* last marker, success_jobs the number of job-completion lines, and
\* jobs_being_processed their difference.
C8_CountsMatchLines ==
    Called /\ HasMarker(Parsed) =>
        /\ metrics.outcome = "returned"
        /\ metrics.num_jobs = Count(Segment(Parsed), IsAcceptance)
        /\ metrics.success_jobs = Count(Segment(Parsed), IsCompletion)
        /\ metrics.jobs_being_processed =
               Count(Segment(Parsed), IsAcceptance) - Count(Segment(Parsed), IsCompletion)

\* C9 (as stated): latency is the arithmetic mean of the elapsed times of the
\* job-completion lines after the last marker, and 0 (with no error) when
\* there is none.
C9_LatencyIsMean ==
    Called /\ HasMarker(Parsed) =>
        /\ metrics.outcome = "returned"
        /\ LET k == Count(Segment(Parsed), IsCompletion) IN
           /\ metrics.latency.den # 0
           /\ k = 0 => metrics.latency.num = 0
           /\ k # 0 => metrics.latency.num * k = TotalTime(Segment(Parsed)) * metrics.latency.den

-----------------------------------------------------------------------------
(* Claims about the supervisor *)

NoWorkerStarted == \A i \in Devices : worker[i] = "none"

\* C10: with more devices configured than detected the supervisor never
\* starts a worker process and never gets past the device count check, and
\* when it has exited its status is not 0.
C10_NoSpawnOnDeviceMismatch ==
    num_cuda_devices > device_count =>
        /\ NoWorkerStarted /\ processes = <<>>
        /\ sup_pc \in {"load_config", "device_check", "shutdown", "exited"}
        /\ updater = "none" /\ display = "none"
        /\ sup_pc = "exited" => sup_status # 0 /\ sup_status # NoExit

\* the device count check has failed and the process has exited with status 1
C10_Witness ==
    /\ num_cuda_devices > device_count
    /\ num_cuda_devices = device_count + 1
    /\ sup_pc = "exited" /\ sup_status = 1
    /\ ~signalled /\ NoWorkerStarted

\* C11 (as stated): once signal_handler has run, no worker process that was
\* started is still running.
C11_HandlerTerminatesAllStarted ==
    signalled => \A i \in Devices : ~Running(i)

\* C12 (as stated): once SIGINT or SIGTERM has been handled while the updater
\* thread and the dashboard thread are running, the supervisor process
\* eventually exits with status 0.
C12_SignalLeadsToExitZero ==
    (signalled /\ updater = "running" /\ display = "curses")
        ~> (sup_pc = "exited" /\ sup_status = 0)

-----------------------------------------------------------------------------
(* Claims about the worker loop, continued *)

\* a step of main that is one whole check_and_reload_model call
CheckStep == pc = "check" /\ pc' # "check"
\* the outcomes of process_jobs that are an exception raised in the iteration
RaisesInJobs(o) == o \in {"raise", "malformed", "nocreds", "jobfail"}

\* C13: an iteration that raises, in the reload check, in the job request or
\* in the delegation, leaves the worker running and at main's sleep; the sleep
\* lasts sleep_duration and leads to the reload check of the next iteration;
\* the worker ends only in process_jobs, when no model id is locally available.
C13_ExceptionsCaughtAtLoopBoundary ==
    [][/\ (CheckStep /\ sig'.raised => pc' = "sleep" /\ exit_status' = NoExit)
       /\ (ProcessStep /\ RaisesInJobs(req'.outcome) =>
               pc' = "sleep" /\ exit_status' = NoExit)
       /\ (pc = "sleep" =>
               pc' = "check" /\ now' = now + SleepDuration /\ exit_status' = NoExit)
       /\ (pc' = "exited" /\ pc # "exited" =>
               pc = "process" /\ NoLocalModels(local_model_ids))]_vars

\* a job request raised, the worker slept and is at the next reload check
C13_Witness == pc = "check" /\ RaisesInJobs(req.outcome) /\ exit_status = NoExit

-----------------------------------------------------------------------------
(* Claims about send_miner_request *)

\* the bodies made of the quoted warning and, before or after it, a job payload
WarningBodies ==
    {QuotedWarning, JobPayload \o QuotedWarning, QuotedWarning \o JobPayload}

\* C14 (as stated): for a response whose body holds Warning:"disk almost full",
\* with or without a job payload, send_miner_request prints exactly
\* disk almost full, and returns the job when the body carries one.
C14_WarningTextExact ==
    req.sent /\ req.ok /\ req.text \in WarningBodies =>
        /\ req.warning = [printed |-> TRUE, message |-> <<"T">>]
        /\ (CarriesJob(req.text) => Accepts(req.outcome))

\* C15 (as stated): the records written in an iteration whose job request
\* ended in a transport error, read by parse_log_file after the run marker,
\* give failed_jobs > 0.
C15_TransportFailureCounted ==
    req.sent /\ req.outcome \in {"raise", "none"} =>
        parse_log_file(<<MarkerLine>> \o req.logged, <<>>).failed_jobs > 0

-----------------------------------------------------------------------------
(* Claims about check_and_reload_model *)

\* C16: reload_model(config, m) is invoked in a check_and_reload_model call
\* exactly when the interval has elapsed, /miner_signal answered 200 with m,
\* m is a local model id and m is in neither loaded_models nor loaded_loras.
C16_ReloadIffConditions ==
    [][CheckStep =>
          (sig'.reload_called <=>
              /\ now - last_signal_time >= ReloadInterval
              /\ sig'.status = "200"
              /\ sig'.model_id \in local_model_ids
              /\ sig'.model_id \notin loaded_models
              /\ sig'.model_id \notin loaded_loras)]_vars

\* reload_model was invoked and loaded what the signal named
C16_Witness ==
    /\ sig.reload_called /\ ~sig.raised
    /\ sig.model_id \in loaded_models \cup loaded_loras

\* C17: a check_and_reload_model call requests /miner_signal exactly when
\* now - last_signal_time >= reload_interval, with or without anything loaded.
C17_SignalIffElapsed ==
    [][CheckStep =>
          /\ (sig'.sent <=> now - last_signal_time >= ReloadInterval)
          /\ (sig'.sent <=> sig'.at = now)]_vars

\* the signal was requested by a worker with no model and no adapter loaded
C17_Witness == sig.sent /\ NothingLoaded /\ ~sig.reload_called

\* C18: the acceptance record is written and submit_job_result is called only
\* in a process_jobs call whose request returned a job, submit_job_result only
\* after the acceptance record; a request is only sent by process_jobs, and
\* process_jobs only runs after the iteration's reload check has returned.
C18_DelegationOnlyAfterJob ==
    [][/\ (ProcessStep =>
              /\ (req'.accepted =>
                      req'.sent /\ req'.outcome \in {"nocreds", "job", "jobfail"})
              /\ (req'.submitted =>
                      req'.accepted /\ req'.outcome \in {"job", "jobfail"})
              /\ ~sig.raised)
       /\ (req'.sent /\ req' # req => ProcessStep)
       /\ (pc' = "process" => pc = "check" /\ ~sig'.raised)]_vars

\* a job was accepted and delegated, the next iteration has begun
C18_Witness == pc = "check" /\ req.accepted /\ req.submitted /\ req.outcome = "job"

\* C20: while no reload check has raised, /miner_signal is requested no
\* earlier than reload_interval after the start of the loop (time 0) and no
\* earlier than reload_interval after the request before it.
C20_SignalsRateLimited ==
    [][CheckStep /\ sig'.sent /\ ~sig.ever_raised =>
          /\ now >= ReloadInterval
          /\ (sig.last_at # Never => now - sig.last_at >= ReloadInterval)]_vars

\* a second /miner_signal request in a run without a raising reload check
C20_Witness == sig.sent /\ sig.repeated /\ ~sig.ever_raised

\* C21: a reload check that raises leaves last_signal_time as it was and
\* sends the worker to main's sleep with no job request sent in the iteration;
\* the sleep changes neither, and the reload check of the next iteration
\* requests /miner_signal again.
C21_RaisingCheckRetried ==
    [][/\ (CheckStep /\ sig'.raised =>
              /\ sig'.sent
              /\ last_signal_time' = last_signal_time
              /\ ~req'.sent
              /\ pc' = "sleep")
       /\ (pc = "sleep" /\ sig.raised =>
              /\ pc' = "check"
              /\ now' = now + SleepDuration
              /\ last_signal_time' = last_signal_time
              /\ ~req'.sent)
       /\ (CheckStep /\ sig.raised => sig'.prev_raised /\ sig'.sent)]_vars

\* the reload check after one that raised has requested the signal again
C21_Witness == sig.prev_raised /\ sig.sent /\ sig.repeated

-----------------------------------------------------------------------------
(* Claims about parse_log_file, continued *)

IsWarning(l) == l.warning

====
